---- MODULE Spec2Model ----
(***************************************************************************)
(* Deepsearch-backend: the vector index service (vectorDbService.js) and   *)
(* the document routes that use it, as a state machine.                    *)
(*                                                                         *)
(* A service call (queryEmbeddings, upsertVectors,                         *)
(* deleteVectorsByDocumentId) advances one await at a time: pc names the   *)
(* await the call is suspended on.  One call is in flight at a time; the   *)
(* variables of the call (args, queries, matches, result, err, attempt,    *)
(* upsertCalls, countPolls, verified) are re-initialised when the next     *)
(* call starts.  The Pinecone backend is external: a query answers with    *)
(* the best-scoring vectors that satisfy the filter, or raises; a filtered *)
(* count may lag behind a write (eventual consistency) or raise.           *)
(***************************************************************************)
EXTENDS Integers, Sequences, FiniteSets, TLC

\* ---------------------------------------------------------------- bounds
MaxChunks == 2
MaxTopK == 2

\* ------------------------------------------------------- program constants
DEFAULT_TOPK == 10
TIER2_MIN_TOPK == 15
TIER3_MIN_TOPK == 20
maxAttempts == 3

\* ------------------------------------------------------------ input sets
UserIds == {"u1", "u2"}
DocIdSeq == <<"d1", "d2">>
DocIds == {DocIdSeq[i] : i \in DOMAIN DocIdSeq}
Embeddings == {0, 1}
ErrorKinds == {"timeout", "auth", "index not found", "other"}
Null == "null"
Absent == "absent"

Max(a, b) == IF a >= b THEN a ELSE b

DocRank(d) == CHOOSE i \in DOMAIN DocIdSeq : DocIdSeq[i] = d

\* The text of the chunk at position i of a document.
ChunkText(i) == <<"chunk", i>>

\* The embedding a caller computes for a chunk text (generateEmbedding is a
\* function of the text).
EmbeddingOf(t) == t[2] % 2

\* A caller's batch: the first n chunks of a document, each
\* {values, metadata: {text}}.
Batch(n) ==
    [i \in 1..n |-> [values |-> EmbeddingOf(ChunkText(i - 1)),
                     metadata |-> [text |-> ChunkText(i - 1)]]]

Batches == {Batch(n) : n \in 1..MaxChunks}

\* ------------------------------------------------------------- the backend
\* Cosine-like similarity of a stored vector to the query embedding.
Score(values, embedding) == IF values = embedding THEN 2 ELSE 1

\* filter: [userId, documentId], a field Absent when the filter omits it.
MatchesFilter(v, filter) ==
    /\ (filter.userId # Absent => v.metadata.userId = filter.userId)
    /\ (filter.documentId # Absent => v.metadata.documentId = filter.documentId)

\* v ranks before w: higher score first, then document, then the ordinal in
\* the id, then the id's separator.
RanksBefore(v, w, embedding) ==
    LET sv == Score(v.values, embedding)
        sw == Score(w.values, embedding)
    IN  \/ sv > sw
        \/ /\ sv = sw
           /\ \/ DocRank(v.metadata.documentId) < DocRank(w.metadata.documentId)
              \/ /\ v.metadata.documentId = w.metadata.documentId
                 /\ \/ v.id[3] < w.id[3]
                    \/ /\ v.id[3] = w.id[3]
                       /\ (v.id[2] = w.id[2] \/ v.id[2] = "#chunk_")

RECURSIVE TopMatches(_, _, _)
TopMatches(S, embedding, k) ==
    IF k = 0 \/ S = {} THEN <<>>
    ELSE LET best == CHOOSE v \in S : \A w \in S : RanksBefore(v, w, embedding)
         IN  <<[id |-> best.id, score |-> Score(best.values, embedding),
                metadata |-> best.metadata]>>
             \o TopMatches(S \ {best}, embedding, k - 1)

\* namespace.query({vector, topK, includeMetadata, filter}): response.matches.
BackendQuery(idx, embedding, topK, filter) ==
    TopMatches({v \in idx : MatchesFilter(v, filter)}, embedding, topK)

\* namespace.upsert(vectors): a vector replaces the stored vector of the same id.
BackendUpsert(idx, vectors) ==
    LET new == {vectors[i] : i \in DOMAIN vectors}
    IN  {v \in idx : \A w \in new : w.id # v.id} \cup new

\* namespace.deleteMany({filter}).
BackendDeleteMany(idx, filter) == {v \in idx : ~MatchesFilter(v, filter)}

\* describeIndexStats({filter}).totalVectorCount when the stats are current.
BackendCount(idx, filter) == Cardinality({v \in idx : MatchesFilter(v, filter)})

\* -------------------------------------------------------------- the state
VARIABLES
    pinecone,       \* module-level client handle is set
    pineconeIndex,  \* module-level index handle is set
    index,          \* the vectors the Pinecone index holds
    fn,             \* the service function in flight
    pc,             \* the await it is suspended on
    args,           \* its arguments
    queries,        \* the similarity queries it has issued, with their answers
    matches,        \* the match list of the tier that produced the result
    result,         \* the value queryEmbeddings returns
    err,            \* the message of the error the call raised
    attempt,        \* upsertVectors: attempt
    upsertCalls,    \* upsertVectors: namespace.upsert calls made
    countPolls,     \* upsertVectors: filtered describeIndexStats calls made
    verified,       \* upsertVectors: a non-zero filtered count was seen
    attempts,       \* upsertVectors: what each attempt's submission and count did
    innerErr,       \* upsertVectors: the error the latest catch (innerErr) caught
    last,           \* the last call that returned after writing to the index
    build,          \* which of the two versions of documentRoutes.js is deployed
    catalog,        \* the Document collection: {id, owner} of every saved document
    created,        \* how many Document ids have been handed out
    route,          \* the route handler in flight
    rpc,            \* the await it is suspended on
    req,            \* its request
    newDoc,         \* upload: the _id of the document it saved
    res,            \* the status of the response it sent
    retrieved,      \* ask: the relevantChunks the handler got from queryEmbeddings
    generateAnswerCalls, \* ask: how many chunks each generateAnswer call was given
    answer,         \* ask: the answer in the response body
    ai,             \* the aiService function in flight: its input, position, output
    chunker         \* the chunkText call in flight: its input, locals, output

svcVars == <<pinecone, pineconeIndex, index, fn, pc, args, queries, matches,
             result, err, attempt, upsertCalls, countPolls, verified, attempts,
             innerErr, last>>

\* The service's state apart from the index itself.
callVars == <<pinecone, pineconeIndex, fn, pc, args, queries, matches,
              result, err, attempt, upsertCalls, countPolls, verified, attempts,
             innerErr, last>>

\* The locals of the handlers that answer a question.
askVars == <<retrieved, generateAnswerCalls, answer>>

\* The state of aiService.js and of fileProcessor.js.
aiVars == <<ai, chunker>>

routeVars == <<build, catalog, created, route, rpc, req, newDoc, res, askVars,
               aiVars>>

vars == <<svcVars, routeVars>>

NoArgs == [userId |-> Null, topK |-> 0, documentId |-> Null, embedding |-> 0,
           vectors |-> <<>>]

NoLast == [fn |-> "none", userId |-> Null, documentId |-> Null, vectors |-> <<>>]

NoReq == [user |-> Null, id |-> Null, file |-> FALSE, chunks |-> 0]

NotRetrieved == [done |-> FALSE, chunks |-> <<>>]

\* No aiService function is in flight.
NoAi == [fn |-> "none"]

\* No chunkText call is in flight.
NoChunker == [pc |-> "none"]

\* documentRoutes.js holds two versions of the router; one of them is deployed.
Builds == {1, 2}

\* Service function f starts to run with the arguments a.
Invoke(f, a) ==
    /\ fn' = f
    /\ pc' = "init"
    /\ args' = a
    /\ UNCHANGED <<pinecone, pineconeIndex, index, queries, matches, result, err,
                   attempt, upsertCalls, countPolls, verified, attempts,
                   innerErr, last>>

\* A caller invokes service function f with the arguments a.
BeginCall(f, a) ==
    /\ Invoke(f, a)
    /\ UNCHANGED routeVars

\* The process has just loaded the module: no handle is set, no call and no
\* request is in flight, and the Document collection is empty.
InitProcess ==
    /\ catalog = {}
    /\ created = 0
    /\ route = "none"
    /\ rpc = "idle"
    /\ req = NoReq
    /\ newDoc = Null
    /\ res = 0
    /\ retrieved = NotRetrieved
    /\ generateAnswerCalls = <<>>
    /\ answer = ""
    /\ pinecone = FALSE
    /\ pineconeIndex = FALSE
    /\ fn = "none"
    /\ pc = "idle"
    /\ args = NoArgs
    /\ queries = <<>>
    /\ matches = <<>>
    /\ result = <<>>
    /\ err = ""
    /\ attempt = 0
    /\ upsertCalls = 0
    /\ countPolls = 0
    /\ verified = FALSE
    /\ attempts = <<>>
    /\ innerErr = ""
    /\ last = NoLast

Init ==
    /\ InitProcess
    /\ chunker = NoChunker
    /\ ai = NoAi
    /\ build = 2
    /\ index = {}

\* ---------------------------------------------------- initializePinecone
\* The message queryEmbeddings raises for an underlying error of kind k.
QueryErrorMessage(k) ==
    IF k = "timeout" THEN "Pinecone connection timeout"
    ELSE IF k = "auth" THEN "Invalid Pinecone API key"
    ELSE IF k = "index not found" THEN "Pinecone index not found"
    ELSE "Pinecone query failed"

\* The await a function reaches once initializePinecone has returned.
EntryPc(f) ==
    IF f = "query" THEN "tier1"
    ELSE IF f = "upsert" THEN "submit"
    ELSE "deleteMany"

\* await initializePinecone() at the head of every service function. The
\* handles are assigned before the connection test is awaited. The test
\* succeeds, or reports the index missing and createIndex succeeds, or one of
\* the two raises and the caller's catch takes over.
initializePinecone ==
    /\ pc = "init"
    /\ IF pinecone /\ pineconeIndex
       THEN /\ pc' = EntryPc(fn)
            /\ attempt' = IF fn = "upsert" THEN 1 ELSE attempt
            /\ UNCHANGED <<pinecone, pineconeIndex, err>>
       ELSE /\ pinecone' = TRUE
            /\ pineconeIndex' = TRUE
            /\ \/ /\ pc' = EntryPc(fn)
                  /\ attempt' = IF fn = "upsert" THEN 1 ELSE attempt
                  /\ UNCHANGED err
               \/ \E k \in ErrorKinds :
                     /\ pc' = "failed"
                     /\ err' = IF fn = "query" THEN QueryErrorMessage(k)
                               ELSE "Could not initialize Pinecone connection"
                     /\ UNCHANGED attempt
    /\ UNCHANGED <<index, fn, args, queries, matches, result, upsertCalls,
                   countPolls, verified, attempts, innerErr, last>>
    /\ UNCHANGED routeVars

\* -------------------------------------------------------- queryEmbeddings
\* Tier 1: {userId, documentId} when a documentId is given, else {userId}.
Tier1Filter(userId, documentId) ==
    IF documentId # Null
    THEN [userId |-> userId, documentId |-> documentId]
    ELSE [userId |-> userId, documentId |-> Absent]

\* Tier 2: the relaxed, user-only filter.
Tier2Filter(userId) == [userId |-> userId, documentId |-> Absent]

\* Tier 3: the query carries no filter.
Tier3Filter == [userId |-> Absent, documentId |-> Absent]

Tier1TopK(topK) == topK

\* Mutant: the relaxed tier asks for as many results as the last resort.
Tier2TopK_AsTier3(topK) == Max(TIER3_MIN_TOPK, topK)

Tier2TopK(topK) == Max(TIER2_MIN_TOPK, topK)

Tier3TopK(topK) == Max(TIER3_MIN_TOPK, topK)

\* What match.metadata?.chunkIndex yields for metadata without a chunkIndex.
Undefined == -1

\* match => {text, score, documentId, chunkIndex}
MapMatch(m) ==
    [text |-> m.metadata.text, score |-> m.score,
     documentId |-> m.metadata.documentId,
     chunkIndex |-> IF "chunkIndex" \in DOMAIN m.metadata
                    THEN m.metadata.chunkIndex ELSE Undefined]

relevantChunks(ms) == [i \in DOMAIN ms |-> MapMatch(ms[i])]

\* Mutant: an empty tier 1 is always followed by the relaxed tier.
AfterTier1_AlwaysRelaxes(ms, documentId) ==
    IF Len(ms) > 0 THEN "done" ELSE "tier2"

\* Where queryEmbeddings goes after a tier answered with the matches ms.
AfterTier1(ms, documentId) ==
    IF Len(ms) > 0 THEN "done"
    ELSE IF documentId # Null THEN "tier2"
    ELSE "tier3"

\* Mutant: the relaxed tier's matches are dropped and tier 3 always runs.
AfterTier2_AlwaysFallsBack(ms) == "tier3"

AfterTier2(ms) == IF Len(ms) > 0 THEN "done" ELSE "tier3"

\* The call's state after the query of one tier answered.
QueryAnswered(tier, topK, filter, next) ==
    LET ms == BackendQuery(index, args.embedding, topK, filter)
    IN  /\ queries' = Append(queries, [tier |-> tier, topK |-> topK, filter |-> filter,
                                       outcome |-> "ok", matches |-> ms])
        /\ pc' = IF tier = 1 THEN AfterTier1(ms, args.documentId)
                 ELSE IF tier = 2 THEN AfterTier2(ms)
                 ELSE next
        /\ IF pc' = "done"
           THEN matches' = ms /\ result' = relevantChunks(ms)
           ELSE UNCHANGED <<matches, result>>
        /\ UNCHANGED err

\* Mutant: a tier's error is swallowed and counts as an empty answer.
QueryRaised_FallsThrough(tier, topK, filter, k) ==
    /\ queries' = Append(queries, [tier |-> tier, topK |-> topK, filter |-> filter,
                                   outcome |-> "error", matches |-> <<>>])
    /\ pc' = IF tier = 1 THEN AfterTier1(<<>>, args.documentId)
             ELSE IF tier = 2 THEN "tier3"
             ELSE "done"
    /\ UNCHANGED <<err, matches, result>>

\* The call's state after the query of one tier raised: the catch re-raises.
QueryRaised(tier, topK, filter, k) ==
    /\ queries' = Append(queries, [tier |-> tier, topK |-> topK, filter |-> filter,
                                   outcome |-> "error", matches |-> <<>>])
    /\ pc' = "failed"
    /\ err' = QueryErrorMessage(k)
    /\ UNCHANGED <<matches, result>>

queryEmbeddings(embedding, userId, topK, documentId) ==
    /\ pc = "idle"
    /\ BeginCall("query",
                 [userId |-> userId, topK |-> topK, documentId |-> documentId,
                  embedding |-> embedding, vectors |-> <<>>])

queryTier1 ==
    /\ fn = "query" /\ pc = "tier1"
    /\ LET topK == Tier1TopK(args.topK)
           filter == Tier1Filter(args.userId, args.documentId)
       IN  \/ QueryAnswered(1, topK, filter, "done")
           \/ \E k \in ErrorKinds : QueryRaised(1, topK, filter, k)
    /\ UNCHANGED <<pinecone, pineconeIndex, index, fn, args, attempt, upsertCalls,
                   countPolls, verified, attempts, innerErr, last>>
    /\ UNCHANGED routeVars

queryTier2 ==
    /\ fn = "query" /\ pc = "tier2"
    /\ LET topK == Tier2TopK(args.topK)
           filter == Tier2Filter(args.userId)
       IN  \/ QueryAnswered(2, topK, filter, "done")
           \/ \E k \in ErrorKinds : QueryRaised(2, topK, filter, k)
    /\ UNCHANGED <<pinecone, pineconeIndex, index, fn, args, attempt, upsertCalls,
                   countPolls, verified, attempts, innerErr, last>>
    /\ UNCHANGED routeVars

queryTier3 ==
    /\ fn = "query" /\ pc = "tier3"
    /\ LET topK == Tier3TopK(args.topK)
           filter == Tier3Filter
       IN  \/ QueryAnswered(3, topK, filter, "done")
           \/ \E k \in ErrorKinds : QueryRaised(3, topK, filter, k)
    /\ UNCHANGED <<pinecone, pineconeIndex, index, fn, args, attempt, upsertCalls,
                   countPolls, verified, attempts, innerErr, last>>
    /\ UNCHANGED routeVars

\* ---------------------------------------------------------- upsertVectors
\* Mutant: the id also counts the submissions made so far.
VectorId_CountsSubmissions(documentId, chunkIndex) ==
    <<documentId, "#chunk_", chunkIndex + upsertCalls>>

\* `${documentId}#chunk_${index}`
VectorId(documentId, chunkIndex) == <<documentId, "#chunk_", chunkIndex>>

\* The three fields upsertVectors writes into the metadata of every vector.
StampedFields == {"documentId", "userId", "chunkIndex"}

Stamp(field, documentId, userId, chunkIndex) ==
    IF field = "documentId" THEN documentId
    ELSE IF field = "userId" THEN userId
    ELSE chunkIndex

\* Mutant: the caller's metadata is spread last and wins.
VectorMetadata_CallerWins(metadata, documentId, userId, chunkIndex) ==
    [field \in DOMAIN metadata \cup StampedFields |->
        IF field \in DOMAIN metadata THEN metadata[field]
        ELSE Stamp(field, documentId, userId, chunkIndex)]

\* {...vec.metadata, documentId, userId, chunkIndex: index}: the caller's
\* fields first, then the three fields, which replace fields of the same name.
VectorMetadata(metadata, documentId, userId, chunkIndex) ==
    [field \in DOMAIN metadata \cup StampedFields |->
        IF field \in StampedFields THEN Stamp(field, documentId, userId, chunkIndex)
        ELSE metadata[field]]

\* vectors.map((vec, index) => ({id, values, metadata}))
vectorsWithMetadata(vectors, documentId, userId) ==
    [i \in DOMAIN vectors |->
        [id |-> VectorId(documentId, i - 1),
         values |-> vectors[i].values,
         metadata |-> VectorMetadata(vectors[i].metadata, documentId, userId, i - 1)]]

\* The filter of the verification count.
VerifyFilter(documentId, userId) == [userId |-> userId, documentId |-> documentId]

\* The batch a caller hands over when its vectors already carry metadata for
\* the three fields: those of another document, another user, another position.
StampedBatch(n) ==
    [i \in 1..n |-> [values |-> EmbeddingOf(ChunkText(i - 1)),
                     metadata |-> [text |-> ChunkText(i - 1), documentId |-> "d2",
                                   userId |-> "u2", chunkIndex |-> n]]]

\* Mutant: the catch gives up one attempt before the budget is used up.
UpsertCatch_GivesUpEarly(k) ==
    /\ innerErr' = k
    /\ IF attempt >= maxAttempts - 1
       THEN /\ pc' = "failed"
            /\ err' = innerErr'
            /\ UNCHANGED attempt
       ELSE /\ pc' = "submit"
            /\ attempt' = attempt + 1
            /\ UNCHANGED err

\* catch (innerErr): re-raise on the last attempt, else back off and loop.
UpsertCatch(k) ==
    /\ innerErr' = k
    /\ IF attempt >= maxAttempts
       THEN /\ pc' = "failed"
            /\ err' = innerErr'
            /\ UNCHANGED attempt
       ELSE /\ pc' = "submit"
            /\ attempt' = attempt + 1
            /\ UNCHANGED err

\* What upsertVectors hands back after the loop, given whether a non-zero
\* count was seen: the function has no return statement, so undefined.
upsertReturnValue(sawCount) == <<"undefined">>

\* Mutant: a non-zero count is noted but the loop goes on.
UpsertCounted_GoesOnAfterCount(c) ==
    /\ verified' = (verified \/ c > 0)
    /\ IF attempt < maxAttempts
       THEN /\ pc' = "submit"
            /\ attempt' = attempt + 1
            /\ UNCHANGED result
       ELSE /\ pc' = "done"
            /\ result' = upsertReturnValue(verified')
            /\ UNCHANGED attempt

\* After a filtered count of c: break, or wait and loop, or warn and leave.
UpsertCounted(c) ==
    IF c > 0
    THEN /\ verified' = TRUE
         /\ pc' = "done"
         /\ result' = upsertReturnValue(TRUE)
         /\ UNCHANGED attempt
    ELSE IF attempt < maxAttempts
    THEN /\ pc' = "submit"
         /\ attempt' = attempt + 1
         /\ UNCHANGED <<verified, result>>
    ELSE /\ pc' = "done"
         /\ result' = upsertReturnValue(FALSE)
         /\ UNCHANGED <<attempt, verified>>

upsertVectors(vectors, documentId, userId) ==
    /\ pc = "idle"
    /\ BeginCall("upsert",
                 [userId |-> userId, topK |-> 0, documentId |-> documentId,
                  embedding |-> 0, vectors |-> vectors])

\* await namespace.upsert(vectorsWithMetadata)
upsertSubmit ==
    /\ fn = "upsert" /\ pc = "submit"
    /\ upsertCalls' = upsertCalls + 1
    /\ \/ /\ index' = BackendUpsert(index,
                        vectorsWithMetadata(args.vectors, args.documentId, args.userId))
          /\ pc' = "verify"
          /\ attempts' = Append(attempts, [submit |-> "ok", count |-> "none"])
          /\ UNCHANGED <<attempt, err, innerErr>>
       \/ \E k \in ErrorKinds :
             /\ UpsertCatch(k)
             /\ attempts' = Append(attempts, [submit |-> "error", count |-> "none"])
             /\ UNCHANGED index
    /\ UNCHANGED <<pinecone, pineconeIndex, fn, args, queries, matches, result,
                   countPolls, verified, last>>
    /\ UNCHANGED routeVars

\* await pineconeIndex.describeIndexStats({filter}): the count is current, or
\* still zero, or the call raises into the same catch as the submission.
upsertVerify ==
    /\ fn = "upsert" /\ pc = "verify"
    /\ countPolls' = countPolls + 1
    /\ \/ \E c \in {BackendCount(index, VerifyFilter(args.documentId, args.userId)), 0} :
             /\ UpsertCounted(c)
             /\ attempts' = [attempts EXCEPT ![Len(attempts)].count =
                                IF c > 0 THEN "positive" ELSE "zero"]
             /\ UNCHANGED <<err, innerErr>>
       \/ \E k \in ErrorKinds :
             /\ UpsertCatch(k)
             /\ attempts' = [attempts EXCEPT ![Len(attempts)].count = "error"]
             /\ UNCHANGED <<verified, result>>
    /\ UNCHANGED <<pinecone, pineconeIndex, index, fn, args, queries, matches,
                   upsertCalls, last>>
    /\ UNCHANGED routeVars

\* ---------------------------------------------- deleteVectorsByDocumentId
\* Mutant: the delete is scoped to one user's vectors.
DeleteFilter_OneUser(documentId) == [userId |-> "u1", documentId |-> documentId]

DeleteFilter(documentId) == [userId |-> Absent, documentId |-> documentId]

deleteVectorsByDocumentId(documentId) ==
    /\ pc = "idle"
    /\ BeginCall("delete",
                 [userId |-> Null, topK |-> 0, documentId |-> documentId,
                  embedding |-> 0, vectors |-> <<>>])

\* await namespace.deleteMany({filter: {documentId}})
deleteMany ==
    /\ fn = "delete" /\ pc = "deleteMany"
    /\ \/ /\ index' = BackendDeleteMany(index, DeleteFilter(args.documentId))
          /\ pc' = "done"
          /\ UNCHANGED err
       \/ \E k \in ErrorKinds :
             /\ pc' = "failed"
             /\ err' = k
             /\ UNCHANGED index
    /\ UNCHANGED <<pinecone, pineconeIndex, fn, args, queries, matches, result,
                   attempt, upsertCalls, countPolls, verified, attempts, innerErr, last>>
    /\ UNCHANGED routeVars

\* ------------------------------------------------------------ the caller
\* What a returning call leaves in `last`: a write that returned normally is
\* remembered, a read leaves the memory alone, a failed write clears it.
LastAfter ==
    IF fn = "query" THEN last
    ELSE IF pc = "done"
    THEN [fn |-> fn, userId |-> args.userId, documentId |-> args.documentId,
          vectors |-> args.vectors]
    ELSE NoLast

\* The call returns (or raises) to its caller; its locals are gone.
ReturnToCaller ==
    /\ pc \in {"done", "failed"}
    /\ fn' = "none"
    /\ pc' = "idle"
    /\ args' = NoArgs
    /\ queries' = <<>>
    /\ matches' = <<>>
    /\ result' = <<>>
    /\ err' = ""
    /\ attempt' = 0
    /\ upsertCalls' = 0
    /\ countPolls' = 0
    /\ verified' = FALSE
    /\ attempts' = <<>>
    /\ innerErr' = ""
    /\ last' = LastAfter
    /\ UNCHANGED <<pinecone, pineconeIndex, index>>

\* A call made outside a request handler returns.
callReturns ==
    /\ ReturnToCaller
    /\ UNCHANGED routeVars

\* ------------------------------------------------------ the specification
Next ==
    \/ \E e \in Embeddings, u \in UserIds, k \in 1..MaxTopK, d \in DocIds \cup {Null} :
          queryEmbeddings(e, u, k, d)
    \/ \E b \in Batches, d \in DocIds, u \in UserIds : upsertVectors(b, d, u)
    \/ \E d \in DocIds : deleteVectorsByDocumentId(d)
    \/ initializePinecone
    \/ queryTier1
    \/ queryTier2
    \/ queryTier3
    \/ upsertSubmit
    \/ upsertVerify
    \/ deleteMany
    \/ callReturns

Spec == Init /\ [][Next]_vars

\* ------------------------------------------------- writes on their own
\* The batches written: plain ones and ones whose vectors come with metadata
\* for the fields upsertVectors sets.
WriteBatches == Batches \cup {StampedBatch(n) : n \in 1..MaxChunks}

\* The writes are those of one user.
WriteUsers == {"u1"}

writeCall ==
    /\ pc = "idle"
    /\ \E b \in WriteBatches, d \in DocIds, u \in WriteUsers : upsertVectors(b, d, u)

NextWrite ==
    \/ writeCall
    \/ initializePinecone
    \/ upsertSubmit
    \/ upsertVerify
    \/ callReturns

\* Every await of a call in flight completes: the backend answers or raises.
SpecWrite == Init /\ [][NextWrite]_vars /\ WF_vars(NextWrite)

\* --------------------------------------- retrieval from a populated index
\* The vectors upsertVectors stores for the first n chunks of a document.
StoredVectors(n, documentId, userId) ==
    LET vs == vectorsWithMetadata(Batch(n), documentId, userId)
    IN  {vs[i] : i \in DOMAIN vs}

\* Document sizes on either side of the floors of tier 2 and tier 3.
CapSizes == {0, TIER2_MIN_TOPK + 1, TIER3_MIN_TOPK + 1}

\* topK values below and above the floor of tier 2.
CapTopKs == (1..MaxTopK) \cup {DEFAULT_TOPK, TIER2_MIN_TOPK + 1}

\* The process starts against an index that earlier ingestions filled.
InitCap ==
    /\ InitProcess
    /\ chunker = NoChunker
    /\ ai = NoAi
    /\ build = 2
    /\ index \in {StoredVectors(n1, "d1", "u1") \cup StoredVectors(n2, "d2", u) :
                     n1 \in CapSizes, n2 \in CapSizes, u \in UserIds}

NextCap ==
    \/ \E e \in Embeddings, u \in UserIds, k \in CapTopKs, d \in DocIds \cup {Null} :
          queryEmbeddings(e, u, k, d)
    \/ initializePinecone
    \/ queryTier1
    \/ queryTier2
    \/ queryTier3
    \/ callReturns

SpecCap == InitCap /\ [][NextCap]_vars

\* ------------------------------------------------------- the document routes
CatalogIds == {c.id : c \in catalog}

\* Document.findById(id): the stored document, or null.
findById(id) ==
    IF id \in CatalogIds THEN CHOOSE c \in catalog : c.id = id
    ELSE [id |-> Null, owner |-> Null]

\* The handler sends its response; nothing of it runs afterwards.
Respond(status) ==
    /\ res' = status
    /\ rpc' = "responded"

\* A request reaches a handler: no other request or service call is in flight.
BeginRoute(r, q) ==
    /\ route = "none"
    /\ pc = "idle"
    /\ route' = r
    /\ req' = q

\* POST /upload by user with a file whose cleaned text splits into chunks chunks.
uploadRoute(user, file, chunks) ==
    /\ created < Len(DocIdSeq)
    /\ BeginRoute("upload", [user |-> user, id |-> Null, file |-> file,
                             chunks |-> chunks])
    /\ IF file
       THEN rpc' = "cloudinary" /\ UNCHANGED res
       ELSE Respond(400)
    /\ UNCHANGED <<svcVars, build, catalog, created, newDoc>>
    /\ UNCHANGED askVars
    /\ UNCHANGED aiVars

\* await cloudinaryUploadPromise()
uploadCloudinary ==
    /\ route = "upload" /\ rpc = "cloudinary"
    /\ \/ rpc' = "parse" /\ UNCHANGED res
       \/ Respond(500)
    /\ UNCHANGED <<svcVars, build, catalog, created, route, req, newDoc>>
    /\ UNCHANGED askVars
    /\ UNCHANGED aiVars

\* await pdfParse(file.buffer): the first version catches a parse error and
\* goes on with a placeholder text, the second answers 500.
uploadParse ==
    /\ route = "upload" /\ rpc = "parse"
    /\ \/ rpc' = "save" /\ UNCHANGED res
       \/ IF build = 1
          THEN rpc' = "save" /\ UNCHANGED res
          ELSE Respond(500)
    /\ UNCHANGED <<svcVars, build, catalog, created, route, req, newDoc>>
    /\ UNCHANGED askVars
    /\ UNCHANGED aiVars

\* new Document({...}); await newDoc.save(). The first version answers 201
\* here; the second goes on to embed the chunks.
uploadSave ==
    /\ route = "upload" /\ rpc = "save"
    /\ created' = created + 1
    /\ \/ /\ catalog' = catalog \cup {[id |-> DocIdSeq[created'], owner |-> req.user]}
          /\ newDoc' = DocIdSeq[created']
          /\ IF build = 1
             THEN Respond(201)
             ELSE rpc' = "embed" /\ UNCHANGED res
       \/ /\ Respond(500)
          /\ UNCHANGED <<catalog, newDoc>>
    /\ UNCHANGED <<svcVars, build, route, req>>
    /\ UNCHANGED askVars
    /\ UNCHANGED aiVars

\* pineconeVectors: {id: `${newDoc._id}_chunk_${i}`, values, metadata:
\* {text, documentId, userId}} for every chunk.
pineconeVectors(documentId, userId, chunks) ==
    [i \in 1..chunks |->
        [id |-> <<documentId, "_chunk_", i - 1>>,
         values |-> EmbeddingOf(ChunkText(i - 1)),
         metadata |-> [text |-> ChunkText(i - 1), documentId |-> documentId,
                       userId |-> userId]]]

\* The loop of await generateEmbedding(chunk): every call answers, or one raises.
uploadEmbed ==
    /\ route = "upload" /\ rpc = "embed"
    /\ \/ IF req.chunks > 0
          THEN rpc' = "store" /\ UNCHANGED res
          ELSE Respond(201)
       \/ req.chunks > 0 /\ Respond(500)
    /\ UNCHANGED <<svcVars, build, catalog, created, route, req, newDoc>>
    /\ UNCHANGED askVars
    /\ UNCHANGED aiVars

\* await storeEmbeddings(pineconeVectors). vectorDbService.js exports no
\* storeEmbeddings, so the call raises a TypeError; with the earlier service
\* that defines it, it is index.upsert(chunks), which answers or raises.
uploadStore ==
    /\ route = "upload" /\ rpc = "store"
    /\ \/ /\ Respond(500)
          /\ UNCHANGED index
       \/ /\ index' = BackendUpsert(index,
                                    pineconeVectors(newDoc, req.user, req.chunks))
          /\ Respond(201)
    /\ UNCHANGED <<callVars, build, catalog, created, route, req, newDoc>>
    /\ UNCHANGED askVars
    /\ UNCHANGED aiVars

\* DELETE /:id by user.
deleteRoute(user, id) ==
    /\ BeginRoute("delete", [user |-> user, id |-> id, file |-> FALSE, chunks |-> 0])
    /\ rpc' = "find"
    /\ UNCHANGED <<svcVars, build, catalog, created, newDoc, res>>
    /\ UNCHANGED askVars
    /\ UNCHANGED aiVars

\* The status for a document that is not the requesting user's.
NotOwnerStatus == IF build = 1 THEN 401 ELSE 404

\* await Document.findById(req.params.id) and the ownership check.
deleteFind ==
    /\ route = "delete" /\ rpc = "find"
    /\ \/ LET document == findById(req.id)
          IN  IF document.id = Null THEN Respond(404)
              ELSE IF document.owner # req.user THEN Respond(NotOwnerStatus)
              ELSE rpc' = "destroy" /\ UNCHANGED res
       \/ Respond(500)
    /\ UNCHANGED <<svcVars, build, catalog, created, route, req, newDoc>>
    /\ UNCHANGED askVars
    /\ UNCHANGED aiVars

\* await cloudinary.uploader.destroy(...): the first version catches its error.
deleteDestroy ==
    /\ route = "delete" /\ rpc = "destroy"
    /\ \/ rpc' = "remove" /\ UNCHANGED res
       \/ IF build = 1
          THEN rpc' = "remove" /\ UNCHANGED res
          ELSE Respond(500)
    /\ UNCHANGED <<svcVars, build, catalog, created, route, req, newDoc>>
    /\ UNCHANGED askVars
    /\ UNCHANGED aiVars

\* await Document.findByIdAndDelete(req.params.id), then 200. The handler makes
\* no call to the vector service.
deleteRemove ==
    /\ route = "delete" /\ rpc = "remove"
    /\ \/ /\ catalog' = {c \in catalog : c.id # req.id}
          /\ Respond(200)
       \/ /\ Respond(500)
          /\ UNCHANGED catalog
    /\ UNCHANGED <<svcVars, build, created, route, req, newDoc>>
    /\ UNCHANGED askVars
    /\ UNCHANGED aiVars

\* The response is out; the handler's locals are gone.
routeReturns ==
    /\ rpc = "responded"
    /\ route' = "none"
    /\ rpc' = "idle"
    /\ req' = NoReq
    /\ newDoc' = Null
    /\ res' = 0
    /\ retrieved' = NotRetrieved
    /\ generateAnswerCalls' = <<>>
    /\ answer' = ""
    /\ UNCHANGED <<svcVars, build, catalog, created>>
    /\ UNCHANGED aiVars

\* An ingestion hands the chunks of a saved document to upsertVectors.
ingest ==
    /\ route = "none"
    /\ \E b \in Batches, c \in catalog : upsertVectors(b, c.id, c.owner)

InitRoutes ==
    /\ InitProcess
    /\ chunker = NoChunker
    /\ ai = NoAi
    /\ build \in Builds
    /\ index = {}

NextRoutes ==
    \/ \E u \in UserIds, f \in BOOLEAN, n \in 0..MaxChunks : uploadRoute(u, f, n)
    \/ uploadCloudinary
    \/ uploadParse
    \/ uploadSave
    \/ uploadEmbed
    \/ uploadStore
    \/ \E u \in UserIds, d \in DocIds : deleteRoute(u, d)
    \/ deleteFind
    \/ deleteDestroy
    \/ deleteRemove
    \/ routeReturns
    \/ ingest
    \/ initializePinecone
    \/ upsertSubmit
    \/ upsertVerify
    \/ callReturns

SpecRoutes == InitRoutes /\ [][NextRoutes]_vars

\* ---------------------------------------------------- answering a question
\* topK of router.post('/ask').
ASK_TOPK == 5

\* askQuestion calls queryEmbeddings(questionEmbedding, 3): the number 3 is
\* taken as the userId, and no stored vector has that userId.
CONTROLLER_USER_ID == "3"

AskHandlers == {"ask", "askQuestion"}

FixedAnswer == "I couldn't find any relevant information in your documents to answer that question."

\* POST /ask by user (second version of the router only).
askRoute(user, question, embedding) ==
    /\ build = 2
    /\ BeginRoute("ask", [user |-> user, question |-> question,
                          embedding |-> embedding])
    /\ IF question = ""
       THEN Respond(400)
       ELSE rpc' = "embed" /\ UNCHANGED res
    /\ UNCHANGED <<svcVars, build, catalog, created, newDoc>>
    /\ UNCHANGED askVars
    /\ UNCHANGED aiVars

\* documentController.askQuestion.
askQuestion(user, question, embedding) ==
    /\ BeginRoute("askQuestion", [user |-> user, question |-> question,
                                  embedding |-> embedding])
    /\ IF question = ""
       THEN Respond(400)
       ELSE rpc' = "embed" /\ UNCHANGED res
    /\ UNCHANGED <<svcVars, build, catalog, created, newDoc>>
    /\ UNCHANGED askVars
    /\ UNCHANGED aiVars

\* The arguments the handler passes to queryEmbeddings.
AskQueryArgs ==
    IF route = "ask"
    THEN [userId |-> req.user, topK |-> ASK_TOPK, documentId |-> Null,
          embedding |-> req.embedding, vectors |-> <<>>]
    ELSE [userId |-> CONTROLLER_USER_ID, topK |-> DEFAULT_TOPK, documentId |-> Null,
          embedding |-> req.embedding, vectors |-> <<>>]

\* await generateEmbedding(question), then the call of queryEmbeddings.
askEmbed ==
    /\ route \in AskHandlers /\ rpc = "embed"
    /\ \/ /\ Invoke("query", AskQueryArgs)
          /\ rpc' = "retrieve"
          /\ UNCHANGED res
       \/ /\ Respond(500)
          /\ UNCHANGED svcVars
    /\ UNCHANGED <<build, catalog, created, route, req, newDoc>>
    /\ UNCHANGED askVars
    /\ UNCHANGED aiVars

\* What the handler does with the relevantChunks cs it got: the route answers
\* an empty sequence with the fixed answer, the controller has no such check.
AfterRetrieval(handler, cs) ==
    IF handler = "ask" /\ Len(cs) = 0 THEN "fixed" ELSE "generate"

\* queryEmbeddings has returned or raised into the handler.
askRetrieved ==
    /\ route \in AskHandlers /\ rpc = "retrieve"
    /\ ReturnToCaller
    /\ IF pc = "failed"
       THEN /\ Respond(500)
            /\ UNCHANGED askVars
       ELSE /\ retrieved' = [done |-> TRUE, chunks |-> result]
            /\ IF AfterRetrieval(route, result) = "fixed"
               THEN /\ Respond(200)
                    /\ answer' = FixedAnswer
               ELSE /\ rpc' = "generate"
                    /\ UNCHANGED <<res, answer>>
            /\ UNCHANGED generateAnswerCalls
    /\ UNCHANGED <<build, catalog, created, route, req, newDoc>>
    /\ UNCHANGED aiVars

\* await generateAnswer(question, context): the model answers, or the call raises.
askGenerate ==
    /\ route \in AskHandlers /\ rpc = "generate"
    /\ generateAnswerCalls' = Append(generateAnswerCalls, Len(retrieved.chunks))
    /\ \/ /\ Respond(200)
          /\ answer' = "generated"
       \/ /\ Respond(500)
          /\ UNCHANGED answer
    /\ UNCHANGED <<svcVars, build, catalog, created, route, req, newDoc, retrieved>>
    /\ UNCHANGED aiVars

Questions == {"", "q"}

\* The indexes the questions are asked against.
AskIndexes ==
    {{}, StoredVectors(1, "d1", "u1"),
     StoredVectors(MaxChunks, "d1", "u1") \cup StoredVectors(1, "d2", "u2")}

InitAsk ==
    /\ InitProcess
    /\ chunker = NoChunker
    /\ ai = NoAi
    /\ build \in Builds
    /\ index \in AskIndexes

\* Neither handler passes a documentId, so tier 1 is followed by tier 3.
NextAsk ==
    \/ \E u \in UserIds, q \in Questions, e \in Embeddings : askRoute(u, q, e)
    \/ \E u \in UserIds, q \in Questions, e \in Embeddings : askQuestion(u, q, e)
    \/ askEmbed
    \/ initializePinecone
    \/ queryTier1
    \/ queryTier3
    \/ askRetrieved
    \/ askGenerate
    \/ routeReturns

SpecAsk == InitAsk /\ [][NextAsk]_vars

\* ------------------------------------------------------------ aiService.js
\* A text is a sequence of symbols. A symbol is a run of characters that the
\* code's patterns treat as a unit; "<thi" followed by "nk>" spells "<think>".
Infinity == 1000000

\* text.indexOf(sym), counted from 1; 0 when sym does not occur (-1 in the code).
IndexOf(text, sym) ==
    IF \E i \in DOMAIN text : text[i] = sym
    THEN CHOOSE i \in DOMAIN text : text[i] = sym /\ \A j \in 1..(i - 1) : text[j] # sym
    ELSE 0

\* text.lastIndexOf(sym), counted from 1; 0 when sym does not occur.
LastIndexOf(text, sym) ==
    IF \E i \in DOMAIN text : text[i] = sym
    THEN CHOOSE i \in DOMAIN text : text[i] = sym /\ \A j \in (i + 1)..Len(text) : text[j] # sym
    ELSE 0

\* text.substring(from) with from counted from 1.
From(text, from) == SubSeq(text, from, Len(text))

Whitespace == {" ", "\n"}

\* text.trim()
RECURSIVE TrimStart(_)
TrimStart(text) ==
    IF text # <<>> /\ text[1] \in Whitespace THEN TrimStart(Tail(text)) ELSE text

RECURSIVE TrimEnd(_)
TrimEnd(text) ==
    IF text # <<>> /\ text[Len(text)] \in Whitespace
    THEN TrimEnd(SubSeq(text, 1, Len(text) - 1)) ELSE text

Trim(text) == TrimEnd(TrimStart(text))

\* How many symbols the "<think>" that starts at position i takes; 0 when none
\* starts there.
OpeningAt(text, i) ==
    IF text[i] = "<think>" THEN 1
    ELSE IF i < Len(text) /\ text[i] = "<thi" /\ text[i + 1] = "nk>" THEN 2
    ELSE 0

\* The position of the first "</think>" from position i on; 0 when there is none.
ClosingFrom(text, i) ==
    IF \E j \in i..Len(text) : text[j] = "</think>"
    THEN CHOOSE j \in i..Len(text) :
            text[j] = "</think>" /\ \A k \in i..(j - 1) : text[k] # "</think>"
    ELSE 0

\* The first position at which /<think>[\s\S]*?<\/think>/ matches: an opening
\* tag with a closing tag somewhere behind it; 0 when there is no match.
FirstSegment(text) ==
    LET starts == {i \in DOMAIN text :
                     /\ OpeningAt(text, i) > 0
                     /\ ClosingFrom(text, i + OpeningAt(text, i)) > 0}
    IN  IF starts = {} THEN 0
        ELSE CHOOSE i \in starts : \A j \in starts : i <= j

\* text.replace(/<think>[\s\S]*?<\/think>/gi, ''): one pass from left to right;
\* each match runs from an opening tag to the nearest closing tag after it, and
\* the scan goes on behind the match.
RECURSIVE StripThink(_)
StripThink(text) ==
    LET start == FirstSegment(text)
    IN  IF start = 0 THEN text
        ELSE SubSeq(text, 1, start - 1)
             \o StripThink(From(text, 1 + ClosingFrom(text, start + OpeningAt(text, start))))

\* data.choices?.[0]?.message?.content || 'No response generated'
NoResponse == <<"No response generated">>

\* messageText || 'Sorry, I couldn\'t generate a response.'
Sorry == <<"Sorry, I couldn't generate a response.">>

\* forceNoThinking: jsonStart = Math.max(index of '[' or Infinity, index of '{'
\* or Infinity); the message is cut to start there when jsonStart is finite.
JsonStart(text) ==
    Max(IF IndexOf(text, "[") # 0 THEN IndexOf(text, "[") ELSE Infinity,
        IF IndexOf(text, "{") # 0 THEN IndexOf(text, "{") ELSE Infinity)

CutToJson(text) ==
    IF JsonStart(text) # Infinity /\ JsonStart(text) <= Len(text)
    THEN Trim(From(text, JsonStart(text)))
    ELSE text

\* The message chatWithPerplexity returns for the content the model sent.
ChatMessage(content, forceNoThinking) ==
    LET fullResponse == IF content = <<>> THEN NoResponse ELSE content
        messageText == Trim(StripThink(fullResponse))
        cut == IF forceNoThinking THEN CutToJson(messageText) ELSE messageText
    IN  IF cut = <<>> THEN Sorry ELSE cut

\* chatWithPerplexity(messages, null, forceNoThinking) is awaiting the model,
\* which will answer with content.
ChatCall(content, forceNoThinking) ==
    [fn |-> "chatWithPerplexity", pc |-> "fetch", content |-> content,
     forceNoThinking |-> forceNoThinking, message |-> <<>>]

\* await fetch(...): the request fails or the response is not ok, and the
\* error is re-raised; or the response is cleaned and returned.
chatWithPerplexity ==
    /\ ai.fn # "none" /\ ai.pc = "fetch"
    /\ \/ ai' = [ai EXCEPT !.pc = "failed"]
       \/ ai' = [ai EXCEPT !.pc = "done",
                           !.message = ChatMessage(ai.content, ai.forceNoThinking)]
    /\ UNCHANGED <<svcVars, build, catalog, created, route, rpc, req, newDoc, res,
                   askVars, chunker>>

\* The character budget of the context in the prompt of generateAnswer.
CONTEXT_BUDGET == 12000

Min(a, b) == IF a <= b THEN a ELSE b

\* A string is given by its length; str.slice(0, end) is its prefix of
\* Min(length, end) characters.
SliceLen(length, end) == Min(length, end)

\* Mutant: a context of exactly the budget is cut as well.
PromptContext_CutsAtBudget(context) ==
    IF context > 0 /\ context >= CONTEXT_BUDGET
    THEN [chars |-> SliceLen(context, CONTEXT_BUDGET), marker |-> TRUE]
    ELSE [chars |-> context, marker |-> FALSE]

\* ${context && context.length > 12000
\*      ? context.slice(0, 12000) + '\n\n[Context truncated]' : context}
\* for a context of the given length: how many of its leading characters the
\* prompt holds, and whether the truncation marker follows them.
PromptContext(context) ==
    IF context > 0 /\ context > CONTEXT_BUDGET
    THEN [chars |-> SliceLen(context, CONTEXT_BUDGET), marker |-> TRUE]
    ELSE [chars |-> context, marker |-> FALSE]

\* The prompt of generateAnswer: the context part, then `Question: ${question}`.
Prompt(question, context) ==
    [context |-> PromptContext(context), question |-> [chars |-> question]]

NoPrompt == [context |-> [chars |-> 0, marker |-> FALSE], question |-> [chars |-> 0]]

\* generateAnswer(question, context) has been called with a question and a
\* context of the given lengths; the model will answer with content.
AnswerCall(question, context, content) ==
    [fn |-> "generateAnswer", pc |-> "prompt", question |-> question,
     context |-> context, prompt |-> NoPrompt, content |-> content,
     forceNoThinking |-> FALSE, message |-> <<>>, answer |-> <<>>]

\* generateAnswer builds the prompt and calls chatWithPerplexity(messages).
generateAnswer ==
    /\ ai.fn = "generateAnswer" /\ ai.pc = "prompt"
    /\ ai' = [ai EXCEPT !.prompt = Prompt(ai.question, ai.context), !.pc = "fetch"]
    /\ UNCHANGED <<svcVars, build, catalog, created, route, rpc, req, newDoc, res,
                   askVars, chunker>>

\* return (result.message || "Sorry, ...").trim(), or the catch raises anew.
generateAnswerReturns ==
    /\ ai.fn = "generateAnswer" /\ ai.pc \in {"done", "failed"}
    /\ IF ai.pc = "done"
       THEN ai' = [ai EXCEPT !.pc = "returned",
                             !.answer = Trim(IF ai.message = <<>> THEN Sorry
                                             ELSE ai.message)]
       ELSE ai' = [ai EXCEPT !.pc = "raised"]
    /\ UNCHANGED <<svcVars, build, catalog, created, route, rpc, req, newDoc, res,
                   askVars, chunker>>

\* Context lengths around the budget, and a question longer than the budget.
ContextLens == {0, 1, CONTEXT_BUDGET - 1, CONTEXT_BUDGET, CONTEXT_BUDGET + 1,
                2 * CONTEXT_BUDGET}

QuestionLens == {1, CONTEXT_BUDGET + 1}

\* What the model answers to a question.
AnswerContents ==
    {<<>>, <<"x">>, <<" ", "x", " ">>, <<"<think>", "x", "</think>", "x">>,
     <<"<think>", "x", "</think>">>}

\* The symbols of the responses that carry reasoning segments.
ThinkSymbols == {"<think>", "<thi", "nk>", "</think>", "x", " "}

MaxResponseLen == 5

ThinkResponses == UNION {[1..n -> ThinkSymbols] : n \in 0..MaxResponseLen}

InitChat ==
    /\ InitProcess
    /\ chunker = NoChunker
    /\ build = 2
    /\ index = {}
    /\ \/ \E content \in ThinkResponses, forceNoThinking \in BOOLEAN :
             ai = ChatCall(content, forceNoThinking)
       \/ \E question \in QuestionLens, context \in ContextLens,
              content \in AnswerContents :
             ai = AnswerCall(question, context, content)

NextChat ==
    \/ generateAnswer
    \/ chatWithPerplexity
    \/ generateAnswerReturns

SpecChat == InitChat /\ [][NextChat]_vars

\* ---------------------------------------------------------- extractEntities
\* .slice(0, 50)
MAX_ENTITIES == 50

EntityTypes == {"PERSON", "ORG", "LOCATION"}

\* A JSON member value: a string, a number, or absent (undefined).
Str(v) == [t |-> "string", v |-> v]
Num(v) == [t |-> "number", v |-> v]
Missing == [t |-> "undefined", v |-> ""]

\* The objects a model output may hold, by the symbol that stands for their
\* members between "{" and "}".
ObjectOf(members) ==
    IF members = "text:Alice,type:PERSON"
    THEN [kind |-> "object", text |-> Str("Alice"), type |-> Str("PERSON")]
    ELSE IF members = "text:Acme,type:org"
    THEN [kind |-> "object", text |-> Str("Acme"), type |-> Str("org")]
    ELSE IF members = "text: Bob ,type:LOCATION"
    THEN [kind |-> "object", text |-> Str(" Bob "), type |-> Str("LOCATION")]
    ELSE IF members = "text: ,type:PERSON"
    THEN [kind |-> "object", text |-> Str(" "), type |-> Str("PERSON")]
    ELSE IF members = "text:May,type:DATE"
    THEN [kind |-> "object", text |-> Str("May"), type |-> Str("DATE")]
    ELSE IF members = "text:5,type:ORG"
    THEN [kind |-> "object", text |-> Num("5"), type |-> Str("ORG")]
    ELSE [kind |-> "object", text |-> Str("Rome"), type |-> Missing]

MemberSymbols ==
    {"text:Alice,type:PERSON", "text:Acme,type:org", "text: Bob ,type:LOCATION",
     "text: ,type:PERSON", "text:May,type:DATE", "text:5,type:ORG", "text:Rome"}

EmptyObject == [kind |-> "object", text |-> Missing, type |-> Missing]
NumberValue == [kind |-> "number", text |-> Missing, type |-> Missing]
NullValue == [kind |-> "null", text |-> Missing, type |-> Missing]

\* String.prototype.trim and toUpperCase on the strings that occur.
TrimStr(s) == IF s = " Bob " THEN "Bob" ELSE IF s = " " THEN "" ELSE s

UpperCase(s) == IF s = "org" THEN "ORG" ELSE s

\* The symbol "fence" is the three backticks of a markdown code fence.
\* text.replace(/fence(?:json)?\s*/gi, ''): every fence, a "json" right behind
\* it and the whitespace that follows are removed.
RECURSIVE StripFences(_)
StripFences(text) ==
    LET at == IndexOf(text, "fence")
        rest == From(text, at + 1)
        afterTag == IF rest # <<>> /\ rest[1] = "json" THEN Tail(rest) ELSE rest
    IN  IF at = 0 THEN text
        ELSE SubSeq(text, 1, at - 1) \o StripFences(TrimStart(afterTag))

\* The clean-up extractEntities applies to result.message.
CleanResponse(message) == Trim(StripFences(StripThink(Trim(message))))

\* The span from the first "[" to the last "]", or <<>> when the code finds
\* no array (a bracket is missing, or the first "[" is not before the last "]").
ArraySpan(text) ==
    LET firstBracket == IndexOf(text, "[")
        lastBracket == LastIndexOf(text, "]")
    IN  IF firstBracket = 0 \/ lastBracket = 0 \/ firstBracket >= lastBracket
        THEN <<>>
        ELSE SubSeq(text, firstBracket, lastBracket)

\* JSON.parse skips the whitespace between tokens.
JsonTokens(text) == SelectSeq(text, LAMBDA sym : sym \notin Whitespace)

\* How many tokens the JSON value at the head of tokens takes; 0 when no value
\* starts there.
ValueLen(tokens) ==
    IF tokens = <<>> THEN 0
    ELSE IF tokens[1] \in {"1", "null"} THEN 1
    ELSE IF Len(tokens) >= 2 /\ tokens[1] = "{" /\ tokens[2] = "}" THEN 2
    ELSE IF Len(tokens) >= 3 /\ tokens[1] = "{" /\ tokens[2] \in MemberSymbols
            /\ tokens[3] = "}" THEN 3
    ELSE 0

ValueAt(tokens) ==
    IF tokens[1] = "1" THEN NumberValue
    ELSE IF tokens[1] = "null" THEN NullValue
    ELSE IF tokens[2] = "}" THEN EmptyObject
    ELSE ObjectOf(tokens[2])

ParseError == [ok |-> FALSE, value |-> <<>>]

\* A non-empty list of values separated by ",": the tokens between two
\* neighbouring commas must be exactly one value each.
ParseElements(tokens) ==
    LET commas == {i \in DOMAIN tokens : tokens[i] = ","}
        n == Cardinality(commas) + 1
        comma(k) == IF k = 0 THEN 0
                    ELSE IF k = n THEN Len(tokens) + 1
                    ELSE CHOOSE i \in commas : Cardinality({j \in commas : j < i}) = k - 1
        part(k) == SubSeq(tokens, comma(k - 1) + 1, comma(k) - 1)
    IN  IF \A k \in 1..n : part(k) # <<>> /\ ValueLen(part(k)) = Len(part(k))
        THEN [ok |-> TRUE, value |-> [k \in 1..n |-> ValueAt(part(k))]]
        ELSE ParseError

\* JSON.parse of a text that starts with "[" and ends with "]": the array, or
\* a SyntaxError.
JsonParse(text) ==
    LET tokens == JsonTokens(text)
        inner == SubSeq(tokens, 2, Len(tokens) - 1)
    IN  IF Len(tokens) < 2 \/ tokens[1] # "[" \/ tokens[Len(tokens)] # "]"
        THEN ParseError
        ELSE IF inner = <<>> THEN [ok |-> TRUE, value |-> <<>>]
        ELSE ParseElements(inner)

\* The filter of extractEntities: an object whose text is a string that is not
\* blank and whose type is a string that is an entity type once upper-cased.
EntityIsValid(entity) ==
    /\ entity.kind = "object"
    /\ entity.text.t = "string"
    /\ TrimStr(entity.text.v) # ""
    /\ entity.type.t = "string"
    /\ UpperCase(entity.type.v) \in EntityTypes

\* .map(entity => ({text: entity.text.trim(), type: entity.type.toUpperCase()}))
CleanEntity(entity) ==
    [text |-> TrimStr(entity.text.v), type |-> UpperCase(entity.type.v)]

\* Mutant: the cap is applied before the filter.
validEntities_CapsFirst(parsed) ==
    LET head == SubSeq(parsed, 1, Min(Len(parsed), MAX_ENTITIES))
        kept == SelectSeq(head, EntityIsValid)
    IN  [i \in DOMAIN kept |-> CleanEntity(kept[i])]

\* parsed.filter(...).map(...).slice(0, 50)
validEntities(parsed) ==
    LET kept == SelectSeq(parsed, EntityIsValid)
        mapped == [i \in DOMAIN kept |-> CleanEntity(kept[i])]
    IN  SubSeq(mapped, 1, Min(Len(mapped), MAX_ENTITIES))

\* Mutant: the catch of extractEntities re-raises.
ExtractCatch_Rethrows == [pc |-> "raised", parsed |-> ParseError, entities |-> <<>>]

\* catch (error) { return []; }
ExtractCatch == [pc |-> "returned", parsed |-> ParseError, entities |-> <<>>]

\* What extractEntities does with the message chatWithPerplexity returned.
ExtractFrom(message) ==
    LET span == ArraySpan(CleanResponse(message))
        parsed == JsonParse(span)
    IN  IF span = <<>>
        THEN [pc |-> "returned", parsed |-> ParseError, entities |-> <<>>]
        ELSE IF ~parsed.ok THEN ExtractCatch
        ELSE [pc |-> "returned", parsed |-> parsed,
              entities |-> validEntities(parsed.value)]

\* extractEntities(text) has been called; the model will answer with content,
\* which was put together as given says.
ExtractCall(keyConfigured, given, content) ==
    [fn |-> "extractEntities", pc |-> "start", keyConfigured |-> keyConfigured,
     given |-> given, content |-> content, forceNoThinking |-> TRUE,
     message |-> <<>>, parsed |-> ParseError, entities |-> <<>>]

\* Without an API key extractEntities returns [] at once; else it calls
\* chatWithPerplexity(messages, null, true).
extractEntities ==
    /\ ai.fn = "extractEntities" /\ ai.pc = "start"
    /\ ai' = [ai EXCEPT !.pc = IF ai.keyConfigured THEN "fetch" ELSE "returned"]
    /\ UNCHANGED <<svcVars, build, catalog, created, route, rpc, req, newDoc, res,
                   askVars, chunker>>

\* chatWithPerplexity has returned or raised into the try of extractEntities.
extractEntitiesReturns ==
    /\ ai.fn = "extractEntities" /\ ai.pc \in {"done", "failed"}
    /\ LET out == IF ai.pc = "failed" THEN ExtractCatch ELSE ExtractFrom(ai.message)
       IN  ai' = [ai EXCEPT !.pc = out.pc, !.parsed = out.parsed,
                            !.entities = out.entities]
    /\ UNCHANGED <<svcVars, build, catalog, created, route, rpc, req, newDoc, res,
                   askVars, chunker>>

\* ------------------------------------------------- the model outputs tried
MaxElements == 2

\* The elements an array may hold: an object by its members, "{}", a number, null.
ElementSymbols == MemberSymbols \cup {"{}", "1", "null"}

ElementTokens(e) ==
    IF e \in MemberSymbols THEN <<"{", e, "}">>
    ELSE IF e = "{}" THEN <<"{", "}">>
    ELSE <<e>>

\* JSON.stringify of an array of the elements es.
RECURSIVE JoinElements(_)
JoinElements(es) ==
    IF es = <<>> THEN <<>>
    ELSE IF Len(es) = 1 THEN ElementTokens(es[1])
    ELSE ElementTokens(es[1]) \o <<",">> \o JoinElements(Tail(es))

ArrayText(es) == <<"[">> \o JoinElements(es) \o <<"]">>

\* The value JSON.parse yields for an element.
ElementValue(e) ==
    IF e \in MemberSymbols THEN ObjectOf(e)
    ELSE IF e = "{}" THEN EmptyObject
    ELSE IF e = "1" THEN NumberValue
    ELSE NullValue

Alice == "text:Alice,type:PERSON"

\* Short arrays of every mix, and arrays around the cap of 50.
ElementLists ==
    UNION {[1..n -> ElementSymbols] : n \in 0..MaxElements}
    \cup {[i \in 1..n |-> Alice] : n \in {MAX_ENTITIES, MAX_ENTITIES + 1}}
    \cup {[i \in 1..(MAX_ENTITIES + 2) |-> IF i = 1 THEN "text:May,type:DATE" ELSE Alice]}

\* Outputs that hold no JSON array: prose, "]" before "[", broken JSON, a bare
\* object, nothing.
BrokenBodies ==
    {<<"Sure">>, <<"]", "[">>, <<"[", "{", Alice, "]">>, <<"[", "1", ",", "]">>,
     <<"{", Alice, "}">>, <<"[", "Sure", "]">>, <<>>}

\* JSON that is not an array but holds one: an object with an array member.
WrappedLists == {<<Alice>>, <<"1">>}

WrappedText(es) == <<"{", "entities:">> \o ArrayText(es) \o <<"}">>

\* What may precede the array: nothing, prose, a reasoning segment, prose with
\* braces.
Prefixes ==
    {<<>>, <<"Sure", "\n">>, <<"<think>", "x", "</think>", "\n">>,
     <<"{", "}", "\n">>}

Fences == {"none", "fence json", "fence"}

FenceOpen(f) ==
    IF f = "fence json" THEN <<"fence", "json", "\n">>
    ELSE IF f = "fence" THEN <<"fence", "\n">>
    ELSE <<>>

FenceClose(f) == IF f = "none" THEN <<>> ELSE <<"\n", "fence">>

\* The model output for a prefix, a fence and a body.
ModelOutput(prefix, fence, body) ==
    prefix \o FenceOpen(fence) \o body \o FenceClose(fence)

InitEntities ==
    /\ InitProcess
    /\ chunker = NoChunker
    /\ build = 2
    /\ index = {}
    /\ \E keyConfigured \in BOOLEAN, prefix \in Prefixes, fence \in Fences :
          \/ \E es \in ElementLists :
                ai = ExtractCall(keyConfigured,
                                 [prefix |-> prefix, fence |-> fence,
                                  kind |-> "array", elements |-> es],
                                 ModelOutput(prefix, fence, ArrayText(es)))
          \/ \E es \in WrappedLists :
                ai = ExtractCall(keyConfigured,
                                 [prefix |-> prefix, fence |-> fence,
                                  kind |-> "wrapped", elements |-> es],
                                 ModelOutput(prefix, fence, WrappedText(es)))
          \/ \E body \in BrokenBodies :
                ai = ExtractCall(keyConfigured,
                                 [prefix |-> prefix, fence |-> fence,
                                  kind |-> "broken", elements |-> <<>>],
                                 ModelOutput(prefix, fence, body))

NextEntities ==
    \/ extractEntities
    \/ chatWithPerplexity
    \/ extractEntitiesReturns

SpecEntities == InitEntities /\ [][NextEntities]_vars

\* ------------------------------------------------------- generateEmbedding
\* parseInt(process.env.EMBEDDING_DIM || '384', 10)
EMBEDDING_DIM == 384

\* The dimensions the process may be configured with: the default and another.
ConfiguredDims == {EMBEDDING_DIM, 2 * EMBEDDING_DIM}

\* result.embedding as the provider may send it: nothing, an object without
\* values, values that are no array, or an array of some length whose
\* components are all numbers or not.
NoVector == [len |-> 0, components |-> "none"]

ProviderLens ==
    {0, EMBEDDING_DIM - 1, EMBEDDING_DIM, EMBEDDING_DIM + 1, 2 * EMBEDDING_DIM}

ProviderVectors == [len : ProviderLens, components : {"numbers", "mixed"}]

ProviderResponses ==
    {[embedding |-> e, values |-> NoVector] :
        e \in {"undefined", "no values", "values not an array"}}
    \cup {[embedding |-> "array", values |-> v] : v \in ProviderVectors}

NoResponseYet == [embedding |-> "pending", values |-> NoVector]

\* !embedding || !embedding.values || !Array.isArray(embedding.values)
EmbeddingIsInvalid(response) == response.embedding # "array"

\* generateEmbedding(text) has been called by a caller that will hand the
\* vector to the index for purpose (an upsert or a query); dim is the
\* configured dimension.
EmbeddingCall(text, purpose, dim) ==
    [fn |-> "generateEmbedding", pc |-> "start", text |-> text,
     purpose |-> purpose, dim |-> dim, response |-> NoResponseYet,
     values |-> NoVector, error |-> "none", handed |-> "none"]

\* if (!text || text.trim().length < 1) throw; else embedContent(text.trim()).
generateEmbedding ==
    /\ ai.fn = "generateEmbedding" /\ ai.pc = "start"
    /\ IF Trim(ai.text) = <<>>
       THEN ai' = [ai EXCEPT !.pc = "raised", !.error = "input"]
       ELSE ai' = [ai EXCEPT !.pc = "embed"]
    /\ UNCHANGED <<svcVars, build, catalog, created, route, rpc, req, newDoc, res,
                   askVars, chunker>>

\* embeddingModel.embedContent fails or answers.
embedContent ==
    /\ ai.fn = "generateEmbedding" /\ ai.pc = "embed"
    /\ \/ ai' = [ai EXCEPT !.pc = "failed"]
       \/ \E response \in ProviderResponses :
             ai' = [ai EXCEPT !.pc = "responded", !.response = response]
    /\ UNCHANGED <<svcVars, build, catalog, created, route, rpc, req, newDoc, res,
                   askVars, chunker>>

\* The check of the response and the catch: every error raised in the try
\* leaves as "Failed to generate embedding from Gemini: ...".
generateEmbeddingReturns ==
    /\ ai.fn = "generateEmbedding" /\ ai.pc \in {"responded", "failed"}
    /\ IF ai.pc = "failed" \/ EmbeddingIsInvalid(ai.response)
       THEN ai' = [ai EXCEPT !.pc = "raised", !.error = "provider"]
       ELSE ai' = [ai EXCEPT !.pc = "returned", !.values = ai.response.values]
    /\ UNCHANGED <<svcVars, build, catalog, created, route, rpc, req, newDoc, res,
                   askVars, chunker>>

\* The caller hands the returned vector to the index: as values of a vector to
\* store, or as the vector of a query.
handEmbedding ==
    /\ ai.fn = "generateEmbedding" /\ ai.pc = "returned" /\ ai.handed = "none"
    /\ ai' = [ai EXCEPT !.handed = ai.purpose]
    /\ UNCHANGED <<svcVars, build, catalog, created, route, rpc, req, newDoc, res,
                   askVars, chunker>>

\* The texts embedded: none, blanks, a text, a text with blanks around it.
EmbeddedTexts == {<<>>, <<" ">>, <<"q">>, <<" ", "q", "\n">>}

InitEmbedding ==
    /\ InitProcess
    /\ chunker = NoChunker
    /\ build = 2
    /\ index = {}
    /\ \E text \in EmbeddedTexts, purpose \in {"upsert", "query"},
          dim \in ConfiguredDims :
          ai = EmbeddingCall(text, purpose, dim)

NextEmbedding ==
    \/ generateEmbedding
    \/ embedContent
    \/ generateEmbeddingReturns
    \/ handEmbedding

SpecEmbedding == InitEmbedding /\ [][NextEmbedding]_vars

\* --------------------------------------------------------------- chunkText
\* [\.!\?]
Terminators == {".", "!", "?"}

\* text.match(/[^\.!\?]+[\.!\?]+/g): from left to right, each match is a run of
\* other characters followed by a run of terminators, both as long as can be.
RECURSIVE MatchSentences(_)
MatchSentences(text) ==
    LET starts == {s \in DOMAIN text :
                     /\ text[s] \notin Terminators
                     /\ \E j \in s..Len(text) : text[j] \in Terminators}
    IN  IF starts = {} THEN <<>>
        ELSE LET s == CHOOSE i \in starts : \A k \in starts : i <= k
                 j == CHOOSE i \in s..Len(text) :
                         /\ text[i] \in Terminators
                         /\ \A k \in s..(i - 1) : text[k] \notin Terminators
                 e == CHOOSE i \in j..Len(text) :
                         /\ \A k \in j..i : text[k] \in Terminators
                         /\ (i = Len(text) \/ text[i + 1] \notin Terminators)
             IN  <<SubSeq(text, s, e)>> \o MatchSentences(From(text, e + 1))

\* text.match(...) || [text]
SentencesOf(text) ==
    IF MatchSentences(text) = <<>> THEN <<text>> ELSE MatchSentences(text)

\* str.split(/\s+/): the pieces between the runs of whitespace, the empty
\* pieces at either end included.
RECURSIVE SplitWhitespace(_)
SplitWhitespace(str) ==
    LET at == {i \in DOMAIN str : str[i] \in Whitespace}
    IN  IF at = {} THEN <<str>>
        ELSE LET first == CHOOSE i \in at : \A k \in at : i <= k
             IN  <<SubSeq(str, 1, first - 1)>>
                 \o SplitWhitespace(TrimStart(From(str, first)))

\* words.join(' ')
RECURSIVE JoinWords(_)
JoinWords(words) ==
    IF words = <<>> THEN <<>>
    ELSE IF Len(words) = 1 THEN words[1]
    ELSE words[1] \o <<" ">> \o JoinWords(Tail(words))

\* words.slice(-overlap): the last overlap words; -0 is 0, so slice(-0) is
\* slice(0), all the words.
SliceLast(words, overlap) ==
    IF overlap = 0 THEN words
    ELSE SubSeq(words, Max(1, Len(words) - overlap + 1), Len(words))

\* The locals before the loop.
ChunkLocals == [chunks |-> <<>>, currentChunk |-> <<>>, currentTokenCount |-> 0]

\* One iteration of the loop over the sentences.
ChunkStep(locals, sentence, chunkSize, overlap) ==
    LET sentenceTokenCount == Len(SplitWhitespace(sentence))
        overlapWords == SliceLast(SplitWhitespace(locals.currentChunk), overlap)
    IN  IF /\ locals.currentTokenCount + sentenceTokenCount > chunkSize
           /\ Len(locals.currentChunk) > 0
        THEN [chunks |-> Append(locals.chunks, Trim(locals.currentChunk)),
              currentChunk |-> JoinWords(overlapWords) \o <<" ">> \o sentence,
              currentTokenCount |-> Len(overlapWords) + sentenceTokenCount]
        ELSE [chunks |-> locals.chunks,
              currentChunk |-> locals.currentChunk \o <<" ">> \o sentence,
              currentTokenCount |-> locals.currentTokenCount + sentenceTokenCount]

\* What chunkText returns once the loop is over.
ChunkReturn(locals, text) ==
    LET chunks == IF Len(Trim(locals.currentChunk)) > 0
                  THEN Append(locals.chunks, Trim(locals.currentChunk))
                  ELSE locals.chunks
    IN  IF Len(chunks) > 0 THEN chunks ELSE <<text>>

RECURSIVE ChunkLoop(_, _, _, _)
ChunkLoop(locals, sentences, chunkSize, overlap) ==
    IF sentences = <<>> THEN locals
    ELSE ChunkLoop(ChunkStep(locals, Head(sentences), chunkSize, overlap),
                   Tail(sentences), chunkSize, overlap)

\* chunkText(text, chunkSize, overlap) as a function of its arguments.
chunkText(text, chunkSize, overlap) ==
    ChunkReturn(ChunkLoop(ChunkLocals, SentencesOf(text), chunkSize, overlap), text)

\* chunkText(text, chunkSize, overlap) has been called.
ChunkCall(text, chunkSize, overlap) ==
    [pc |-> "start", text |-> text, chunkSize |-> chunkSize, overlap |-> overlap,
     sentences |-> <<>>, locals |-> ChunkLocals, result |-> <<>>]

\* The text is cut into sentences.
chunkBegin ==
    /\ chunker.pc = "start"
    /\ chunker' = [chunker EXCEPT !.pc = "loop", !.sentences = SentencesOf(chunker.text)]
    /\ UNCHANGED <<svcVars, build, catalog, created, route, rpc, req, newDoc, res,
                   askVars, ai>>

\* for (const sentence of sentences) { ... }
chunkSentence ==
    /\ chunker.pc = "loop" /\ chunker.sentences # <<>>
    /\ chunker' = [chunker EXCEPT
                      !.locals = ChunkStep(chunker.locals, Head(chunker.sentences),
                                           chunker.chunkSize, chunker.overlap),
                      !.sentences = Tail(chunker.sentences)]
    /\ UNCHANGED <<svcVars, build, catalog, created, route, rpc, req, newDoc, res,
                   askVars, ai>>

\* The last chunk is pushed and the chunks are returned.
chunkReturns ==
    /\ chunker.pc = "loop" /\ chunker.sentences = <<>>
    /\ chunker' = [chunker EXCEPT !.pc = "returned",
                                  !.result = ChunkReturn(chunker.locals, chunker.text)]
    /\ UNCHANGED <<svcVars, build, catalog, created, route, rpc, req, newDoc, res,
                   askVars, ai>>

\* The texts chunked: every text of up to MaxTextLen characters out of a
\* letter, a blank and a full stop.
MaxTextLen == 6

Characters == {"a", " ", "."}

Texts == UNION {[1..n -> Characters] : n \in 0..MaxTextLen}

MaxChunkSize == 3

ChunkSizes == 1..MaxChunkSize

Overlaps == 0..MaxChunkSize

InitChunk ==
    /\ InitProcess
    /\ ai = NoAi
    /\ build = 2
    /\ index = {}
    /\ \E text \in Texts, chunkSize \in ChunkSizes, overlap \in Overlaps :
          chunker = ChunkCall(text, chunkSize, overlap)

NextChunk ==
    \/ chunkBegin
    \/ chunkSentence
    \/ chunkReturns

SpecChunk == InitChunk /\ [][NextChunk]_vars

\* ================================================================ claims
\* The tier whose answer became the result of a finished retrieval.
WinningTier == queries[Len(queries)].tier

\* C1: queryEmbeddings never returns a match whose stored userId metadata
\* differs from the requested userId, whichever tier produced the result.
C1_NoMatchOfAnotherUser ==
    fn = "query" =>
        \A i \in DOMAIN matches : matches[i].metadata.userId = args.userId

\* C2: every similarity query issued during a retrieval carries a userId
\* equality filter whose value is the requesting user's id.
C2_EveryQueryFiltersByUser ==
    fn = "query" =>
        \A i \in DOMAIN queries : queries[i].filter.userId = args.userId

\* C3: the unfiltered tier-3 query is off by default: a retrieval whose
\* user-scoped tiers all returned zero matches returns an empty result and
\* has issued no unfiltered query.
C3_UnfilteredTierOffByDefault ==
    (/\ fn = "query" /\ pc = "done"
     /\ \A i \in DOMAIN queries :
           queries[i].filter.userId # Absent => queries[i].matches = <<>>)
    => /\ result = <<>>
       /\ \A i \in DOMAIN queries : queries[i].filter # Tier3Filter

\* C4: the result of queryEmbeddings is exactly the match list (each match as
\* {text, score, documentId, chunkIndex}) of the first tier, in the order
\* 1, 2, 3, whose query returned at least one match, with no merge and no
\* re-ranking; when tier 1 returns nothing and tier 2 something, the tier-2
\* matches are returned and not an empty result.
C4_FirstNonEmptyTierIsTheResult ==
    (fn = "query" /\ pc = "done") =>
        LET answered == {i \in DOMAIN queries : queries[i].matches # <<>>}
        IN  /\ \A i \in DOMAIN queries : queries[i].tier >= i
            /\ \A i, j \in DOMAIN queries : i < j => queries[i].tier < queries[j].tier
            /\ IF answered = {}
               THEN result = <<>>
               ELSE LET first == CHOOSE i \in answered : \A j \in answered : i <= j
                        ms == queries[first].matches
                    IN  /\ matches = ms
                        /\ Len(result) = Len(ms)
                        /\ \A n \in DOMAIN ms :
                              result[n] = [text |-> ms[n].metadata.text,
                                           score |-> ms[n].score,
                                           documentId |-> ms[n].metadata.documentId,
                                           chunkIndex |-> ms[n].metadata.chunkIndex]

C4_Witness ==
    /\ fn = "query" /\ pc = "done"
    /\ Len(queries) = 2
    /\ queries[1].tier = 1 /\ queries[1].matches = <<>>
    /\ queries[2].tier = 2 /\ Len(queries[2].matches) = 2
    /\ Len(result) = 2

\* C5 as claimed: the returned sequence has at most topK elements whenever it
\* comes from tier 1 or tier 2, and at most max(topK, 20) from tier 3.
C5_AtMostTopKBelowTier3 ==
    (fn = "query" /\ pc = "done" /\ result # <<>>) =>
        /\ WinningTier \in {1, 2} => Len(result) <= args.topK
        /\ WinningTier = 3 => Len(result) <= Max(args.topK, 20)

\* C5 amended: the returned sequence has at most topK elements from tier 1, at
\* most max(topK, 15) from tier 2 and at most max(topK, 20) from tier 3.
C5_TierCaps ==
    (fn = "query" /\ pc = "done" /\ result # <<>>) =>
        /\ WinningTier = 1 => Len(result) <= args.topK
        /\ WinningTier = 2 => Len(result) <= Max(args.topK, 15)
        /\ WinningTier = 3 => Len(result) <= Max(args.topK, 20)

C5_Witness ==
    /\ fn = "query" /\ pc = "done"
    /\ WinningTier = 2
    /\ args.topK < 15
    /\ Len(result) = 15
    /\ Cardinality({v \in index : v.metadata.userId = args.userId}) > 15

\* C6: if the index query of any tier raises, queryEmbeddings ends with an
\* error and issues no further query; the error yields no match list.
C6_ErrorAbortsRetrieval ==
    fn = "query" =>
        \A i \in DOMAIN queries :
            queries[i].outcome = "error" =>
                /\ i = Len(queries)
                /\ pc = "failed"
                /\ err # ""
                /\ result = <<>>
                /\ matches = <<>>

C6_Witness ==
    /\ fn = "query" /\ pc = "failed"
    /\ Len(queries) = 2
    /\ queries[1].outcome = "ok"
    /\ queries[2].outcome = "error" /\ queries[2].tier = 2
    /\ index # {}

\* The retrieval in flight names the document whose vectors the last index
\* write deleted.
RetrievalAfterDelete ==
    /\ fn = "query"
    /\ last.fn = "delete"
    /\ last.documentId = args.documentId

\* A successful deleteVectorsByDocumentId(d) leaves no vector of d behind.
DeleteLeavesNoVector ==
    (fn = "delete" /\ pc = "done") =>
        \A v \in index : v.metadata.documentId # args.documentId

\* C7 as claimed: after deleteVectorsByDocumentId(d) returns successfully no
\* vector with documentId d remains, whatever its userId, and a subsequent
\* retrieval filtered by documentId d returns zero matches.
C7_RetrievalAfterDeleteIsEmpty ==
    /\ DeleteLeavesNoVector
    /\ (RetrievalAfterDelete /\ pc = "done") => result = <<>>

\* C7 amended: after deleteVectorsByDocumentId(d) returns successfully no
\* vector with documentId d remains, whatever its userId; in a subsequent
\* retrieval with documentId d the documentId-filtered (tier-1) query returns
\* zero matches and no returned match carries documentId d.
C7_DeleteRemovesEveryVectorOfDocument ==
    /\ DeleteLeavesNoVector
    /\ RetrievalAfterDelete =>
          /\ \A v \in index : v.metadata.documentId # args.documentId
          /\ \A i \in DOMAIN queries :
                queries[i].filter.documentId = args.documentId =>
                    queries[i].matches = <<>>
          /\ \A i \in DOMAIN result : result[i].documentId # args.documentId

C7_Witness ==
    /\ RetrievalAfterDelete /\ pc = "done"
    /\ Len(queries) = 2
    /\ queries[1].filter.documentId = args.documentId
    /\ queries[1].matches = <<>>
    /\ result # <<>>

\* C9: after a document id is ingested again the index holds for that document
\* id exactly the vectors of the latest ingestion; no vector of an earlier
\* ingestion survives, also when the later ingestion has fewer chunks.
C9_ReingestionReplacesTheDocument ==
    (fn = "upsert" /\ pc = "done") =>
        {v \in index : v.metadata.documentId = args.documentId}
            = {[id |-> <<args.documentId, "#chunk_", i - 1>>,
                values |-> args.vectors[i].values,
                metadata |-> [text |-> args.vectors[i].metadata.text,
                              documentId |-> args.documentId,
                              userId |-> args.userId,
                              chunkIndex |-> i - 1]] : i \in DOMAIN args.vectors}

\* The write in flight repeats the arguments of the last index write.
RepeatsLastWrite ==
    /\ fn = "upsert"
    /\ last.fn = "upsert"
    /\ last.documentId = args.documentId
    /\ last.userId = args.userId
    /\ last.vectors = args.vectors

\* C10: upsertVectors gives chunk i the id derived only from (documentId, i):
\* every stored vector has the id of its (documentId, chunkIndex) and no two
\* stored vectors share one; writing the same chunk sequence for the same
\* documentId again, in a second call or in a later attempt of one call,
\* leaves the index as the first write left it.
C10_SameWriteTwiceIsOneWrite ==
    /\ [](\A v \in index :
             /\ v.id = <<v.metadata.documentId, "#chunk_", v.metadata.chunkIndex>>
             /\ \A w \in index :
                   (/\ w.metadata.documentId = v.metadata.documentId
                    /\ w.metadata.chunkIndex = v.metadata.chunkIndex) => w = v)
    /\ [][(RepeatsLastWrite \/ (fn = "upsert" /\ countPolls >= 1))
            => index' = index]_vars

C10_Witness ==
    /\ RepeatsLastWrite /\ pc = "done"
    /\ upsertCalls = 2
    /\ Len(args.vectors) = MaxChunks
    /\ Cardinality({v \in index : v.metadata.documentId = args.documentId}) = MaxChunks

\* ---------------------------------------------------------------------- C8
\* The vectors in the index that carry the documentId d.
VectorsOf(d) == {v \in index : v.metadata.documentId = d}

\* The ids of the documents that were saved and whose record is gone again.
GoneIds == {DocIdSeq[i] : i \in 1..created} \ CatalogIds

\* C8: once the delete route has completed successfully for a document, no
\* vector of that document is left in the index: in no reachable state is a
\* document's catalog record gone while vectors carrying its documentId are
\* still indexed.
C8_DeletedDocumentHasNoVectors ==
    /\ (route = "delete" /\ rpc = "responded" /\ res = 200) => VectorsOf(req.id) = {}
    /\ \A d \in GoneIds : VectorsOf(d) = {}

\* --------------------------------------------------------------------- C11
\* Every submission the write in flight has made so far failed.
EverySubmissionFailed ==
    \A i \in DOMAIN attempts : attempts[i].submit = "error"

\* The latest attempt of the write in flight ended in the catch.
LastAttemptRaised ==
    /\ attempts # <<>>
    /\ \/ attempts[Len(attempts)].submit = "error"
       \/ attempts[Len(attempts)].count = "error"

\* C11: upsertVectors makes at most 3 submissions; a write all of whose
\* submissions failed fails after exactly 3 of them with the error of the
\* last one; a write fails only on the error of its third attempt, so a
\* failure of an earlier attempt is retried and does not fail the write.
C11_SubmissionRetriedWithinBudget ==
    fn = "upsert" =>
        /\ upsertCalls = Len(attempts)
        /\ Len(attempts) <= 3
        /\ (pc \in {"done", "failed"} /\ attempts # <<>> /\ EverySubmissionFailed) =>
              /\ pc = "failed"
              /\ upsertCalls = 3
              /\ err = innerErr
        /\ (pc = "failed" /\ attempts # <<>>) =>
              /\ Len(attempts) = 3
              /\ LastAttemptRaised
              /\ err = innerErr
        /\ (pc \in {"submit", "verify", "done"}) => err = ""

C11_Witness ==
    /\ fn = "upsert" /\ pc = "failed"
    /\ upsertCalls = 3
    /\ EverySubmissionFailed
    /\ err = "timeout"

\* A write that succeeds on its third submission after two failed ones.
C11_RecoveredWitness ==
    /\ fn = "upsert" /\ pc = "done"
    /\ Len(attempts) = 3
    /\ attempts[1].submit = "error" /\ attempts[2].submit = "error"
    /\ attempts[3].submit = "ok"

\* --------------------------------------------------------------------- C12
\* C12: once a submission of the batch has succeeded, upsertVectors completes
\* as a success: a count that stays zero on every poll, or a count call that
\* raises, never makes the write fail.
C12_VerificationNeverFailsTheWrite ==
    (fn = "upsert" /\ pc = "failed" /\ attempts # <<>>) => EverySubmissionFailed

\* --------------------------------------------------------------------- C13
\* C13: what upsertVectors reports to its caller after an inconclusive write
\* (every poll returned zero) differs from what it reports after a verified
\* write (a non-zero count was seen), so the caller is told that verification
\* was inconclusive.
C13_ReportTellsInconclusiveFromVerified ==
    (fn = "upsert" /\ pc = "done" /\ ~verified) =>
        result # upsertReturnValue(TRUE)

\* --------------------------------------------------------------------- C14
\* C14: on every handler that answers a question, a retrieval that yields no
\* match is answered with the fixed answer and generateAnswer is not called:
\* no generateAnswer call is ever given an empty set of chunks.
C14_EmptyRetrievalNeverReachesTheModel ==
    /\ \A i \in DOMAIN generateAnswerCalls : generateAnswerCalls[i] > 0
    /\ (/\ route \in AskHandlers /\ rpc = "responded"
        /\ retrieved.done /\ retrieved.chunks = <<>>)
       => res = 200 /\ answer = FixedAnswer

\* --------------------------------------------------------------------- C15
\* The text holds an opening reasoning tag that is followed by a closing one.
ContainsReasoningSegment(text) ==
    \E i \in DOMAIN text :
        /\ OpeningAt(text, i) > 0
        /\ ClosingFrom(text, i + OpeningAt(text, i)) > 0

\* C15: whatever the model sent, the message chatWithPerplexity returns holds
\* no reasoning segment: no opening reasoning tag followed by a closing one.
C15_NoReasoningSegmentInMessage ==
    (ai.fn = "chatWithPerplexity" /\ ai.pc = "done") =>
        ~ContainsReasoningSegment(ai.message)

\* --------------------------------------------------------------------- C16
\* C16: the prompt of generateAnswer holds the first 12000 characters of the
\* context followed by the truncation marker exactly when the context is
\* longer than 12000 characters, the whole context and no marker otherwise,
\* and the whole question whatever its length.
C16_ContextCutToBudgetQuestionInFull ==
    (ai.fn = "generateAnswer" /\ ai.pc # "prompt") =>
        /\ ai.prompt.context.marker <=> (ai.context > 12000)
        /\ ai.prompt.context.marker => ai.prompt.context.chars = 12000
        /\ ~ai.prompt.context.marker => ai.prompt.context.chars = ai.context
        /\ ai.prompt.question.chars = ai.question

C16_Witness ==
    /\ ai.fn = "generateAnswer" /\ ai.pc = "returned"
    /\ ai.context = 12001
    /\ ai.question > 12000
    /\ ai.prompt.context = [chars |-> 12000, marker |-> TRUE]

\* extractEntities has returned after asking the model.
ExtractionReturned ==
    ai.fn = "extractEntities" /\ ai.pc = "returned" /\ ai.keyConfigured

\* The entity {text: "Alice", type: "PERSON"}.
AliceEntity == [text |-> "Alice", type |-> "PERSON"]

\* C17: when the model output is a prose sentence followed by a json code
\* fence that wraps an array of valid entity objects, extractEntities returns
\* all the elements of that array; for the array of the one entity Alice it
\* returns exactly that entity.
C17_FencedArrayAfterProseReturnedWhole ==
    (/\ ExtractionReturned
     /\ ai.given.kind = "array"
     /\ ai.given.prefix = <<"Sure", "\n">>
     /\ ai.given.fence = "fence json"
     /\ ai.given.elements # <<>>
     /\ Len(ai.given.elements) <= MAX_ENTITIES
     /\ \A i \in DOMAIN ai.given.elements : ai.given.elements[i] = Alice)
    => ai.entities = [i \in DOMAIN ai.given.elements |-> AliceEntity]

\* The model call of extractEntities failed: no message came back.
ModelCallFailed == ExtractionReturned /\ ai.message = <<>>

\* C18 as stated: extractEntities never raises, and it returns an empty
\* sequence for every model output that is not a JSON array (prose, "]" before
\* "[", malformed JSON, JSON that is not an array) and when the model call fails.
C18_Original_EmptyForEveryNonArrayOutput ==
    /\ ai.fn = "extractEntities" => ai.pc # "raised"
    /\ (ExtractionReturned /\ (ModelCallFailed \/ ai.given.kind \in {"broken", "wrapped"}))
       => ai.entities = <<>>

\* C18: extractEntities never raises, whatever the model sends and when the
\* model call fails; it returns an empty sequence when the model call fails and
\* for every output that holds no JSON array at all (prose, "]" before "[",
\* malformed JSON, a bare object); and whenever the span it cut from the output
\* did not parse, what it returns is empty.
C18_NeverRaisesEmptyWithoutArray ==
    /\ ai.fn = "extractEntities" => ai.pc # "raised"
    /\ (ExtractionReturned /\ (ModelCallFailed \/ ai.given.kind = "broken"))
       => ai.entities = <<>>
    /\ (ExtractionReturned /\ ~ai.parsed.ok) => ai.entities = <<>>

C18_Witness ==
    /\ ExtractionReturned
    /\ ai.given.kind = "broken"
    /\ ai.content = <<"Sure", "\n", "[", "{", Alice, "]">>
    /\ ai.message # <<>>
    /\ ai.entities = <<>>

C18_FailedCallWitness == ModelCallFailed /\ ai.entities = <<>>

\* The k-th smallest member of a set of positions.
Nth(positions, k) ==
    CHOOSE i \in positions : Cardinality({j \in positions : j <= i}) = k

\* The first MAX_ENTITIES elements of the parsed array that pass valid, each as
\* shown by show, in the order of the array.
FirstValid(parsed, valid(_), show(_)) ==
    LET positions == {i \in DOMAIN parsed : valid(parsed[i])}
    IN  [k \in 1..Min(Cardinality(positions), MAX_ENTITIES) |->
            show(parsed[Nth(positions, k)])]

\* Validity as the claim words it: an object with a non-empty text string and
\* a type string that is one of the three types.
ValidAsWorded(entity) ==
    /\ entity.kind = "object"
    /\ entity.text.t = "string" /\ entity.text.v # ""
    /\ entity.type.t = "string" /\ entity.type.v \in EntityTypes

\* An element of the array as it stands.
AsParsed(entity) == [text |-> entity.text.v, type |-> entity.type.v]

\* Validity as the filter decides it: the text is not blank, the type is one of
\* the three whatever its case.
ValidIgnoringCaseAndBlanks(entity) ==
    /\ entity.kind = "object"
    /\ entity.text.t = "string" /\ TrimStr(entity.text.v) # ""
    /\ entity.type.t = "string" /\ UpperCase(entity.type.v) \in EntityTypes

\* An element with its text trimmed and its type in upper case.
Normalised(entity) ==
    [text |-> TrimStr(entity.text.v), type |-> UpperCase(entity.type.v)]

\* C19 as stated: the result is the first 50 elements of the parsed array that
\* are objects with a non-empty text string and a type that is PERSON, ORG or
\* LOCATION, in their original order.
C19_Original_FirstFiftyValidElements ==
    (ExtractionReturned /\ ai.parsed.ok)
    => ai.entities = FirstValid(ai.parsed.value, ValidAsWorded, AsParsed)

\* C19: for every parsed array the result is the first 50 (at most) valid
\* elements in their original order, each with its text trimmed and its type in
\* upper case, where an element is valid when it is an object whose text is a
\* string that is not blank and whose type is a string that is PERSON, ORG or
\* LOCATION in any letter case; the other elements are dropped without failing
\* the call, and every returned type is one of the three.
C19_FirstFiftyValidElementsNormalised ==
    (ExtractionReturned /\ ai.parsed.ok)
    => /\ ai.entities = FirstValid(ai.parsed.value, ValidIgnoringCaseAndBlanks, Normalised)
       /\ Len(ai.entities) <= MAX_ENTITIES
       /\ \A k \in DOMAIN ai.entities : ai.entities[k].type \in EntityTypes

C19_Witness ==
    /\ ExtractionReturned /\ ai.parsed.ok
    /\ Len(ai.parsed.value) = MAX_ENTITIES + 2
    /\ ~ValidIgnoringCaseAndBlanks(ai.parsed.value[1])
    /\ Len(ai.entities) = MAX_ENTITIES

C19_MixedWitness ==
    /\ ExtractionReturned /\ ai.parsed.ok
    /\ ai.given.elements = <<"text:Acme,type:org", "1">>
    /\ ai.entities = <<[text |-> "Acme", type |-> "ORG"]>>

\* C20: generateEmbedding returns only vectors of exactly D numeric
\* components, D being the configured dimension, so a vector handed to the
\* index for an upsert or a query always has D numeric components.
C20_OnlyVectorsOfConfiguredDimension ==
    /\ (ai.fn = "generateEmbedding" /\ ai.pc = "returned")
       => ai.values.len = ai.dim /\ ai.values.components = "numbers"
    /\ (ai.fn = "generateEmbedding" /\ ai.handed # "none")
       => ai.values.len = ai.dim /\ ai.values.components = "numbers"

\* C24: within one retrieval the queries are issued in tier order, each only
\* after the one before it returned zero matches: tier 2 (userId only,
\* max(topK, 15) results) only when a documentId was given, tier 3 (no filter,
\* max(topK, 20) results) only after every earlier query returned nothing; a
\* retrieval issues at most 3 queries, and at most 2 without a documentId.
C24_TiersInOrderEachAfterAnEmptyAnswer ==
    fn = "query" =>
        /\ Len(queries) <= 3
        /\ args.documentId = Null => Len(queries) <= 2
        /\ \A i \in DOMAIN queries :
              /\ i = 1 => queries[i].tier = 1
              /\ i > 1 => /\ queries[i - 1].outcome = "ok"
                          /\ queries[i - 1].matches = <<>>
                          /\ queries[i - 1].tier < queries[i].tier
              /\ queries[i].tier = 2 =>
                    /\ args.documentId # Null
                    /\ queries[i].filter = [userId |-> args.userId, documentId |-> Absent]
                    /\ queries[i].topK = Max(args.topK, TIER2_MIN_TOPK)
              /\ queries[i].tier = 3 =>
                    /\ queries[i].filter = [userId |-> Absent, documentId |-> Absent]
                    /\ queries[i].topK = Max(args.topK, TIER3_MIN_TOPK)

C24_Witness ==
    /\ fn = "query" /\ pc = "done"
    /\ args.documentId # Null
    /\ Len(queries) = 3
    /\ queries[2].tier = 2 /\ queries[2].matches = <<>>
    /\ queries[3].tier = 3 /\ queries[3].matches # <<>>

C24_WithoutDocumentWitness ==
    /\ fn = "query" /\ pc = "done"
    /\ args.documentId = Null
    /\ Len(queries) = 2
    /\ queries[2].tier = 3

\* C25: within one write the batch is submitted again only after a failed
\* submission: once a submission has succeeded, no further upsert of the batch
\* is made, whatever the verification counts.
C25_ResubmittedOnlyAfterFailedSubmission ==
    [][upsertCalls' > upsertCalls =>
          \A i \in DOMAIN attempts : attempts[i].submit = "error"]_vars

\* C29: a call of initializePinecone that fails leaves the module
\* uninitialized, so that the next call tests the connection again.
C29_FailedInitializationLeavesNoHandles ==
    [][(pc = "init" /\ pc' = "failed") => ~(pinecone' /\ pineconeIndex')]_vars

\* C30: whenever the upload route answers with an error, neither a catalog
\* record nor index vectors of that upload exist.
C30_FailedUploadLeavesNothingBehind ==
    (route = "upload" /\ rpc = "responded" /\ res >= 400)
    => \/ newDoc = Null
       \/ newDoc \notin CatalogIds /\ VectorsOf(newDoc) = {}

\* C27: under every sequence of backend responses upsertVectors terminates,
\* by returning or by raising, after at most 3 upsert calls and at most 3
\* filtered count polls, and it polls no more once a non-zero count was seen.
C27_WriteEndsWithinThreeSubmissionsAndPolls ==
    /\ [](fn = "upsert" => upsertCalls <= 3 /\ countPolls <= 3)
    /\ [](fn = "upsert" /\ verified => pc = "done")
    /\ (fn = "upsert") ~> (fn = "upsert" /\ pc \in {"done", "failed"})

C27_Witness ==
    /\ fn = "upsert" /\ pc = "done"
    /\ upsertCalls = 3 /\ countPolls = 3
    /\ ~verified

C27_VerifiedWitness ==
    /\ fn = "upsert" /\ pc = "done"
    /\ verified /\ countPolls = 2

\* C28: every vector upsertVectors submits carries metadata whose documentId
\* and userId equal the call's arguments and whose chunkIndex is the vector's
\* zero-based position in the batch, also when the caller's metadata of that
\* vector holds other values for those fields.
C28_SubmittedMetadataCarriesTheCallsArguments ==
    (fn = "upsert" /\ pc = "verify") =>
        \A i \in DOMAIN args.vectors :
            \E v \in index :
                /\ v.id = <<args.documentId, "#chunk_", i - 1>>
                /\ v.values = args.vectors[i].values
                /\ v.metadata.documentId = args.documentId
                /\ v.metadata.userId = args.userId
                /\ v.metadata.chunkIndex = i - 1
                /\ v.metadata.text = args.vectors[i].metadata.text

C28_Witness ==
    /\ fn = "upsert" /\ pc = "verify"
    /\ args.documentId = "d1" /\ args.userId = "u1"
    /\ Len(args.vectors) = 2
    /\ \A i \in DOMAIN args.vectors :
          /\ "documentId" \in DOMAIN args.vectors[i].metadata
          /\ args.vectors[i].metadata.documentId = "d2"
          /\ args.vectors[i].metadata.userId = "u2"
          /\ args.vectors[i].metadata.chunkIndex = 2

\* A piece of a split that holds at least one character.
IsToken(piece) == piece # <<>>

\* The whitespace-delimited tokens of a text.
Tokens(text) == SelectSeq(SplitWhitespace(text), IsToken)

\* C21: chunkText on the empty string returns an empty sequence, for every
\* chunkSize and overlap.
C21_EmptyTextGivesNoChunk ==
    (chunker.pc = "returned" /\ chunker.text = <<>>) => chunker.result = <<>>

\* The tokens of the chunks with the overlap taken off the front of every
\* chunk but the first.
RECURSIVE Reassembled(_, _)
Reassembled(chunks, overlap) ==
    IF chunks = <<>> THEN <<>>
    ELSE IF Len(chunks) = 1 THEN Tokens(chunks[1])
    ELSE LET front == SubSeq(chunks, 1, Len(chunks) - 1)
             closed == Tokens(chunks[Len(chunks) - 1])
             next == Tokens(chunks[Len(chunks)])
         IN  Reassembled(front, overlap)
             \o SubSeq(next, Min(overlap, Len(closed)) + 1, Len(next))

\* The characters of a sequence of tokens, in order.
RECURSIVE Letters(_)
Letters(tokens) ==
    IF tokens = <<>> THEN <<>> ELSE Head(tokens) \o Letters(Tail(tokens))

\* C22: for overlap < chunkSize, the chunks of chunkText with their overlaps
\* removed give back the tokens of the text: nothing of the text is lost, the
\* text after the last terminator included, and nothing is there twice. (Stated
\* on the characters of the tokens, so that a token which the sentence split
\* cuts in two still counts as kept.)
C22_ChunksWithoutOverlapGiveBackTheText ==
    (chunker.pc = "returned" /\ chunker.overlap < chunker.chunkSize)
    => Letters(Reassembled(chunker.result, chunker.overlap)) = Letters(Tokens(chunker.text))

\* C23: with overlap >= chunkSize the chunks are those of the same call with
\* overlap = chunkSize - 1.
C23_OverlapClampedBelowChunkSize ==
    (chunker.pc = "returned" /\ chunker.overlap >= chunker.chunkSize)
    => chunker.result = chunkText(chunker.text, chunker.chunkSize, chunker.chunkSize - 1)

\* An iteration of the loop is closing a chunk.
ClosesChunk ==
    /\ chunker.pc = "loop" /\ chunker'.pc = "loop"
    /\ Len(chunker'.locals.chunks) > Len(chunker.locals.chunks)

\* The tokens the next chunk starts with against the closed chunk and the unit.
SeededWithOverlap ==
    LET closed == Tokens(chunker'.locals.chunks[Len(chunker'.locals.chunks)])
        carried == Min(chunker.overlap, Len(closed))
    IN  Tokens(chunker'.locals.currentChunk)
        = SubSeq(closed, Len(closed) - carried + 1, Len(closed))
          \o Tokens(Head(chunker.sentences))

\* C26: whenever chunkText closes a chunk, the next chunk starts with exactly
\* the last min(overlap, tokens of the closed chunk) tokens of the closed chunk,
\* followed by the unit that triggered the close, for every overlap >= 0.
C26_NextChunkSeededWithOverlapTokens ==
    [][ClosesChunk => SeededWithOverlap]_vars

\* The same for the overlaps of at least one token.
SeededWithPositiveOverlap ==
    [][(ClosesChunk /\ chunker.overlap > 0) => SeededWithOverlap]_vars

====
